---- MODULE Spec2Model ----
(***************************************************************************)
(* Kalah (bediger4000/kalah): the board engine of src/kalah.go, makeMove   *)
(* and checkEnd, driven by the game loop of main.                          *)
(*                                                                         *)
(* A Board is a record [maxpits, minpits, player]; maxpits and minpits are *)
(* functions 0..6 -> Int, index 6 being the store, as in the Go arrays.    *)
(***************************************************************************)
EXTENDS Integers, Sequences, FiniteSets, TLC

\* ---------------------------------------------------------------- constants
MAXIMIZER == 1
MINIMIZER == 0 - 1
UNSET == 0
WIN == 10000
LOSS == 0 - 10000

\* ------------------------------------------------------------------- bounds
\* free moves explored in a game that is played from the new board
MaxMoves == 7
\* free moves explored after a scripted opening
MaxExtra == 1
\* the -d values of the games played with the alpha-beta search: 0..MaxDepth
MaxDepth == 1
\* the moves of a game against the search during which the human picks
\* any pit
MaxFree == 3
\* the -i values of the games played with the tree search: 0..MaxIter
MaxIter == 3
\* the moves a game may go on after its opening, in the games played to
\* their end
MaxEnd == 12
\* the moves of a playoff game that are explored in every legal way
MaxPlayoff == 7

Pits == 0..5
Slots == 0..6
Players == {MAXIMIZER, MINIMIZER}

\* The games that are played: -n stones per pit, who moves first (the -C
\* flag), the pits picked in the opening, and how many moves are then
\* explored in every legal way.
Book ==
    {[stones |-> 1, first |-> f, line |-> <<>>, free |-> MaxMoves] :
        f \in Players}
    \cup
    {[stones |-> 4, first |-> f, line |-> <<>>, free |-> MaxExtra] :
        f \in Players}
    \cup
    {[stones |-> 4, first |-> MINIMIZER, free |-> MaxExtra,
      line |-> <<4, 4, 1, 2, 5, 0>>],
     [stones |-> 4, first |-> MAXIMIZER, free |-> MaxExtra,
      line |-> <<4, 4, 2, 1, 0, 0>>],
     [stones |-> 4, first |-> MAXIMIZER, free |-> MaxExtra,
      line |-> <<5, 5, 0, 1, 2, 0, 3, 0, 5, 0, 4>>],
     [stones |-> 4, first |-> MAXIMIZER, free |-> MaxExtra,
      line |-> <<4, 0, 1, 2, 2, 4, 3, 2, 4, 5, 0, 0, 4, 3, 3>>]}

\* ------------------------------------------------------------------ helpers
RECURSIVE SumUpTo(_, _)
SumUpTo(f, n) == IF n < 0 THEN 0 ELSE f[n] + SumUpTo(f, n - 1)

\* sum of the six pits of one side
SideSum(side) == SumUpTo(side, 5)

\* all stones of a board: 12 pits and 2 stores
Total(b) == SumUpTo(b.maxpits, 6) + SumUpTo(b.minpits, 6)

\* main: the board after the -n stones have been put in the 12 pits
NewBoard(s) ==
    [maxpits |-> [i \in Slots |-> IF i < 6 THEN s ELSE 0],
     minpits |-> [i \in Slots |-> IF i < 6 THEN s ELSE 0],
     player  |-> UNSET]

\* --------------------------------------------------------------- makeMove
\* line 539 without "S == 0", and without the test of the pit across
captureCond_anyside(sides, S, i, hand) ==
    hand = 1 /\ i < 6 /\ sides[S][i] = 0 /\ sides[1 - S][5 - i] > 0
captureCond_anyacross(sides, S, i, hand) ==
    hand = 1 /\ S = 0 /\ i < 6 /\ sides[S][i] = 0
\* line 539: the last stone is about to land in an empty pit of the mover's
\* side and the pit across holds stones
captureCond(sides, S, i, hand) ==
    /\ hand = 1
    /\ S = 0
    /\ i < 6
    /\ sides[S][i] = 0
    /\ sides[1 - S][5 - i] > 0

\* line 540: what a capture adds to the mover's store
captureGain_lost(across) == across
captureGain(across) == across + 1

\* line 544: the opponent's store is passed without a stone
skipStore_never(S, i) == FALSE
skipStore(S, i) == S = 1 /\ i = 6

\* lines 544-547: a stone is dropped, after a capture or not, unless the
\* place is the opponent's store ("else if" in place of "if" in the mutant)
dropStone_else(captured, S, i) == ~captured /\ ~skipStore(S, i)
dropStone(captured, S, i) == ~skipStore(S, i)

\* lines 548-553: the stone that emptied the hand went to index 6
bonusCond_anypass(i, hand) == i = 6
bonusCond(i, hand) == i = 6 /\ hand = 0

\* The sowing loop of makeMove, lines 536-557: sides[0] is the mover's
\* array, sides[1] the opponent's, S the side the loop is on, i the index
\* the next stone goes to.
RECURSIVE sowLoop(_, _, _, _, _)
sowLoop(sides, S, i, hand, bonusmove) ==
    IF hand <= 0
    THEN [sides |-> sides, bonusmove |-> bonusmove, panic |-> FALSE]
    ELSE IF i > 6
    \* line 545 with i = 7: index out of range, a run-time panic
    THEN [sides |-> sides, bonusmove |-> bonusmove, panic |-> TRUE]
    ELSE
      LET s1 == IF captureCond(sides, S, i, hand)
                THEN [sides EXCEPT
                        ![S][6] = @ + captureGain(sides[1 - S][5 - i]),
                        ![1 - S][5 - i] = 0,
                        ![S][i] = @ - 1]
                ELSE sides
          drop == dropStone(captureCond(sides, S, i, hand), S, i)
          s2 == IF drop THEN [s1 EXCEPT ![S][i] = @ + 1] ELSE s1
          hand2 == IF drop THEN hand - 1 ELSE hand
      IN IF i = 6
         THEN sowLoop(s2, 1 - S, 0, hand2,
                      bonusmove \/ bonusCond(i, hand2))
         ELSE sowLoop(s2, S, i + 1, hand2, bonusmove)

\* lines 530-532: an empty hand is a panic
emptyPitPanics_never(hand) == FALSE
emptyPitPanics(hand) == hand = 0

\* makeMove(bd, pit, player): the board it leaves and the pair it returns;
\* panic is TRUE when it does not return: the pit was empty (line 531) or
\* an array was indexed out of its range 0..6 (line 527 for a pit below 0
\* or above 6, line 545 for pit 6, which line 510 only reports).
makeMove(bd, pit, player) ==
    IF pit < 0 \/ pit > 6
    THEN [bd |-> bd, nextplayer |-> 0 - player, plydelta |-> 1,
          panic |-> TRUE]
    ELSE
    LET sides0 == IF player = MAXIMIZER
                  THEN <<bd.maxpits, bd.minpits>>
                  ELSE <<bd.minpits, bd.maxpits>>
        sides == [k \in 0..1 |-> sides0[k + 1]]
        hand == sides[0][pit]
        picked == [sides EXCEPT ![0][pit] = UNSET]
        r == sowLoop(picked, 0, pit + 1, hand, FALSE)
        own == r.sides[0]
        opp == r.sides[1]
    IN IF emptyPitPanics(hand) \/ r.panic
       THEN [bd |-> [maxpits |-> IF player = MAXIMIZER
                                 THEN picked[0] ELSE picked[1],
                     minpits |-> IF player = MAXIMIZER
                                 THEN picked[1] ELSE picked[0],
                     player  |-> bd.player],
             nextplayer |-> 0 - player, plydelta |-> 1,
             panic |-> TRUE]
       ELSE [bd |-> [maxpits |-> IF player = MAXIMIZER THEN own ELSE opp,
                     minpits |-> IF player = MAXIMIZER THEN opp ELSE own,
                     player  |-> player],
             nextplayer |-> IF r.bonusmove THEN player ELSE 0 - player,
             plydelta |-> IF r.bonusmove THEN 0 ELSE 1,
             panic |-> FALSE]

\* --------------------------------------------------------------- checkEnd
\* lines 570, 573: a store holds more than winningStonesCount
storeWins_late(store, wsc) == store > wsc + 1
storeWins(store, wsc) == store > wsc

\* line 583: one side has no stone left in its pits
sideEmpty_both(maxsidesum, minsidesum) == minsidesum = 0 /\ maxsidesum = 0
sideEmpty_maxonly(maxsidesum, minsidesum) == maxsidesum = 0
sideEmpty_laststone(maxsidesum, minsidesum) ==
    minsidesum <= 1 \/ maxsidesum <= 1
sideEmpty(maxsidesum, minsidesum) == minsidesum = 0 \/ maxsidesum = 0

\* lines 589, 590: a store after the sweep of its side
sweptStore_lost(store, sidesum) == store
sweptStore_only(store, sidesum) == sidesum
sweptStore(store, sidesum) == store + sidesum

\* lines 593-600: the winner from the difference of the stores
winnerOf_notie(diff) == IF diff < 0 THEN MINIMIZER ELSE MAXIMIZER
winnerOf(diff) ==
    IF diff > 0 THEN MAXIMIZER ELSE IF diff < 0 THEN MINIMIZER ELSE diff

\* checkEnd(bd) with winningStonesCount = wsc: the board it leaves and the
\* pair (end, winner) it returns.
checkEnd(bd, wsc) ==
    LET maxsidesum == SideSum(bd.maxpits)
        minsidesum == SideSum(bd.minpits)
        swept == [bd EXCEPT
                    !.maxpits = [i \in Slots |->
                                   IF i < 6 THEN UNSET
                                   ELSE sweptStore(bd.maxpits[6], maxsidesum)],
                    !.minpits = [i \in Slots |->
                                   IF i < 6 THEN UNSET
                                   ELSE sweptStore(bd.minpits[6], minsidesum)]]
    IN IF storeWins(bd.maxpits[6], wsc)
       THEN [bd |-> bd, end |-> TRUE, winner |-> MAXIMIZER]
       ELSE IF storeWins(bd.minpits[6], wsc)
       THEN [bd |-> bd, end |-> TRUE, winner |-> MINIMIZER]
       ELSE IF sideEmpty(maxsidesum, minsidesum)
       THEN [bd |-> swept, end |-> TRUE,
             winner |-> winnerOf(swept.maxpits[6] - swept.minpits[6])]
       ELSE [bd |-> bd, end |-> FALSE, winner |-> UNSET]

\* ------------------------------------------------------------------- state
VARIABLES
    game,       \* the game played: stones per pit, first player, opening
    bd,         \* main's board
    player,     \* main's player: who is asked for the next move
    pc,         \* where main's loop is: "move", "check" or "done"
    pre,        \* the board handed to the last makeMove
    mid,        \* the board handed to the last checkEnd
    call,       \* the last call made and what the calls returned
    nmoves,     \* number of makeMove calls so far
    probe,      \* a call of makeMove with any pit, and how it ended
    maxDepth,   \* the -d flag
    ab,         \* the call of chooseAlphaBeta: its board, its loop, its result
    stack,      \* the calls of alphaBeta in progress, the innermost last
    ret,        \* the last call of alphaBeta that returned, and its value
    iterations, \* the -i flag
    mc,         \* the call of chooseMonteCarlo: its locals and its result
    tree,       \* the nodes of its tree, the root first
    moveNode,   \* part_004: MCTS.moveNode, the node kept between two calls
    consecutiveMoves,  \* part_004: main's moves since the computer's last
    maximizer,  \* part_007: maximizer.bd, the first player's own board
    minimizer,  \* part_007: minimizer.bd, the second player's own board
    maxNxt,     \* part_007: who moves next, as the first player's board has it
    minNxt      \* part_007: who moves next, as the second player's board has it

\* the state of the alpha-beta search
abVars == <<maxDepth, ab, stack, ret>>

\* the state of the Monte Carlo tree search
reuseVars == <<moveNode, consecutiveMoves>>
mcVars == <<iterations, mc, tree, reuseVars>>

\* the state of the playoff between two choosers
playoffVars == <<maximizer, minimizer, maxNxt, minNxt>>

\* what the game loop leaves alone
searchVars == <<probe, playoffVars, abVars, mcVars>>

vars == <<game, bd, player, pc, pre, mid, call, nmoves, probe, maxDepth, ab,
          stack, ret, iterations, mc, tree, moveNode, consecutiveMoves,
          maximizer, minimizer, maxNxt, minNxt>>

\* *stoneCountPtr
stones == game.stones

\* line 283
winningStonesCount == 6 * stones

NoCall == [op |-> "none", pit |-> 0, mover |-> UNSET, nextplayer |-> UNSET,
           plydelta |-> 1, end |-> FALSE, winner |-> UNSET, chain |-> 0]

\* readMove (lines 495-502) accepts a pit of 0..5 that is not empty; the
\* computer's chooser returns one of its own non-empty pits
LegalPits(b, p) ==
    {i \in Pits : (IF p = MAXIMIZER THEN b.maxpits ELSE b.minpits)[i] # UNSET}

\* the pits picked at this point of the game that is played
Picks ==
    IF nmoves < Len(game.line)
    THEN {game.line[nmoves + 1]} \cap LegalPits(bd, player)
    ELSE IF nmoves < Len(game.line) + game.free
    THEN LegalPits(bd, player)
    ELSE {}

\* line 313: main's player after makeMove has returned r
mainPlayer_flip(cur, r) == 0 - cur
mainPlayer(cur, r) == r.nextplayer

NoProbe == [op |-> "none", pit |-> 0, player |-> UNSET, panic |-> FALSE,
            bd |-> NewBoard(0)]

NoChoice == [op |-> "none", bd |-> NewBoard(0), pit |-> 6, bestpit |-> 0,
             bestvalue |-> 0, values |-> <<>>]

NoSearch == [op |-> "none", bd |-> NewBoard(0), iter |-> 0, node |-> 0,
             state |-> NewBoard(0), nextPlayer |-> UNSET, gameEnd |-> FALSE,
             winner |-> UNSET, bestpit |-> 0, value |-> 0, panic |-> FALSE,
             rootNode |-> 0, startingNode |-> 0, pastMoves |-> <<>>,
             before |-> <<>>]

NoReturn == [op |-> "none", bd |-> NewBoard(0), ply |-> 0, player |-> UNSET,
             alpha |-> 0, beta |-> 0, value |-> 0]

Init ==
    /\ game \in Book
    /\ bd = NewBoard(stones)
    /\ player = game.first
    /\ pc = "move"
    /\ pre = NewBoard(stones)
    /\ mid = NewBoard(stones)
    /\ call = NoCall
    /\ nmoves = 0
    /\ probe = NoProbe
    /\ maximizer = NewBoard(0)
    /\ minimizer = NewBoard(0)
    /\ maxNxt = UNSET
    /\ minNxt = UNSET
    /\ maxDepth = 0
    /\ ab = NoChoice
    /\ stack = <<>>
    /\ ret = NoReturn
    /\ iterations = 0
    /\ mc = NoSearch
    /\ tree = <<>>
    /\ moveNode = 0
    /\ consecutiveMoves = <<>>

\* main, lines 302-313: a pit is obtained for the player and makeMove is
\* called; its nextplayer becomes main's player.
PlayPit(pit) ==
    LET r == makeMove(bd, pit, player)
    IN /\ ~r.panic
       /\ bd' = r.bd
       /\ player' = mainPlayer(player, r)
       /\ pre' = bd
       /\ call' = [op |-> "makeMove", pit |-> pit, mover |-> player,
                   nextplayer |-> r.nextplayer, plydelta |-> r.plydelta,
                   end |-> FALSE, winner |-> UNSET,
                   chain |-> IF r.plydelta # 0 THEN 0
                             ELSE IF call.plydelta = 0
                                     /\ call.mover = player
                             THEN call.chain + 1 ELSE 1]
       /\ pc' = "check"
       /\ nmoves' = nmoves + 1
       /\ UNCHANGED <<game, mid>>

MainMakeMove ==
    /\ pc = "move"
    /\ \E pit \in Picks : PlayPit(pit)
    /\ UNCHANGED searchVars

\* main, lines 314-325: checkEnd on the board makeMove left; the loop is
\* left when it reports the end of the game.
MainCheckEnd ==
    /\ pc = "check"
    /\ LET r == checkEnd(bd, winningStonesCount)
       IN /\ bd' = r.bd
          /\ mid' = bd
          /\ call' = [call EXCEPT !.op = "checkEnd", !.end = r.end,
                                  !.winner = r.winner]
          /\ pc' = IF r.end THEN "done" ELSE "move"
    /\ UNCHANGED <<game, player, pre, nmoves>>
    /\ UNCHANGED searchVars

Next == MainMakeMove \/ MainCheckEnd

Spec == Init /\ [][Next]_vars

\* ------------------------------------------------ makeMove with any pit
\* the games in which makeMove is called with any pit
BookProbe == {[g EXCEPT !.free = MaxExtra] : g \in Book}

\* the pit indexes tried: those of the arrays and one beyond at each end
ProbePits == (0 - 1)..7

InitProbe ==
    /\ game \in BookProbe
    /\ bd = NewBoard(stones)
    /\ player = game.first
    /\ pc = "move"
    /\ pre = NewBoard(stones)
    /\ mid = NewBoard(stones)
    /\ call = NoCall
    /\ nmoves = 0
    /\ probe = NoProbe
    /\ maximizer = NewBoard(0)
    /\ minimizer = NewBoard(0)
    /\ maxNxt = UNSET
    /\ minNxt = UNSET
    /\ maxDepth = 0
    /\ ab = NoChoice
    /\ stack = <<>>
    /\ ret = NoReturn
    /\ iterations = 0
    /\ mc = NoSearch
    /\ tree = <<>>
    /\ moveNode = 0
    /\ consecutiveMoves = <<>>

\* makeMove(&bd, pit, player) called on the board of the game with a pit
\* that no caller of the program checks first; the game stops there.
ProbeMakeMove ==
    /\ pc = "move"
    /\ \E pit \in ProbePits, p \in Players :
         LET r == makeMove(bd, pit, p)
         IN probe' = [op |-> "makeMove", pit |-> pit, player |-> p,
                      panic |-> r.panic, bd |-> r.bd]
    /\ pc' = "probed"
    /\ UNCHANGED <<game, bd, player, pre, mid, call, nmoves>>
    /\ UNCHANGED <<playoffVars, abVars, mcVars>>

NextProbe == MainMakeMove \/ MainCheckEnd \/ ProbeMakeMove

SpecProbe == InitProbe /\ [][NextProbe]_vars

\* ------------------------------------------------------ alpha-beta search
\* line 299
maxPly == 2 * maxDepth

\* lines 413-414: the static value of a board at the horizon; the sum of
\* the pits is never negative, so Go's division is that of the naturals
staticValue(b, ply) ==
    (b.maxpits[6] - b.minpits[6]) - ply
    + ((b.maxpits[0] + b.maxpits[1] + b.maxpits[2] + b.maxpits[3]
        + b.maxpits[4] + 2 * b.maxpits[5]) \div 3)

\* lines 427-434 and 454-461: the value of a board that ends the game
terminalValue_flat(winner, ply) ==
    IF winner = MAXIMIZER THEN WIN
    ELSE IF winner = MINIMIZER THEN LOSS
    ELSE 0
terminalValue(winner, ply) ==
    IF winner = MAXIMIZER THEN WIN - ply
    ELSE IF winner = MINIMIZER THEN LOSS + ply
    ELSE 0

\* checkEnd on the board makeMove left, with what makeMove returned:
\* lines 382, 429 and 457
checkMoved(m) ==
    LET e == checkEnd(m.bd, winningStonesCount)
    IN [bd |-> e.bd, end |-> e.end, winner |-> e.winner,
        nextplayer |-> m.nextplayer, plydelta |-> m.plydelta]

\* makeMove and then checkEnd on a copy of the board, as the searches do
\* it: lines 377-382, 425-429 and 453-457 (the set has one element: the
\* result of makeMove is computed once and handed on)
moveAndCheck(b, pit, p) ==
    CHOOSE c \in {checkMoved(m) : m \in {makeMove(b, pit, p)}} : TRUE

\* the loops over the pits (lines 375-376, 423-424, 451-452): the first pit
\* from `from` on that holds stones on the side of p, 6 when there is none
nextPit(b, p, from) ==
    IF \E i \in LegalPits(b, p) : i >= from
    THEN CHOOSE i \in LegalPits(b, p) :
             i >= from /\ \A j \in LegalPits(b, p) : j >= from => i <= j
    ELSE 6

\* alphaBeta(bd, ply, player, alpha, beta) entered, line 408: value is the
\* named result, 0 as long as nothing is assigned to it
newCall(b, ply, p, alpha, beta) ==
    [bd |-> b, ply |-> ply, player |-> p, alpha |-> alpha, beta |-> beta,
     pit |-> nextPit(b, p, 0), value |-> 0]

\* lines 441-446 and 468-473: the value of the child of pit f.pit has been
\* assigned; the window is narrowed, and at a cutoff the loop is left
cutoff(alpha, beta) == beta <= alpha

gotValue(f, v) ==
    LET a2 == IF f.player = MAXIMIZER /\ v > f.alpha THEN v ELSE f.alpha
        b2 == IF f.player = MINIMIZER /\ v < f.beta THEN v ELSE f.beta
    IN [f EXCEPT !.value = v, !.alpha = a2, !.beta = b2,
                 !.pit = IF cutoff(a2, b2) THEN 6
                         ELSE nextPit(f.bd, f.player, f.pit + 1)]

\* line 395
better_less(value, bestvalue) == value < bestvalue
better_orequal(value, bestvalue) == value >= bestvalue
better(value, bestvalue) == value > bestvalue

\* lines 395-398: chooseAlphaBeta has the value of its pit ab.pit
rootGotValue(c, v) ==
    [c EXCEPT !.values = Append(c.values, <<c.pit, v>>),
              !.bestvalue = IF better(v, c.bestvalue) THEN v ELSE @,
              !.bestpit = IF better(v, c.bestvalue) THEN c.pit ELSE @,
              !.pit = nextPit(c.bd, MAXIMIZER, c.pit + 1)]

\* the games played against the alpha-beta search
BookAB ==
    {[stones |-> 1, first |-> f, line |-> <<>>, free |-> MaxFree] :
        f \in Players}

\* readMove: the human picks any pit during the first moves of the game,
\* and the first pit that holds stones from then on
HumanPicks ==
    IF nmoves < game.free THEN LegalPits(bd, player)
    ELSE {nextPit(bd, player, 0)} \cap Pits

InitAB ==
    /\ game \in BookAB
    /\ maxDepth \in 0..MaxDepth
    /\ bd = NewBoard(stones)
    /\ player = game.first
    /\ pc = "move"
    /\ pre = NewBoard(stones)
    /\ mid = NewBoard(stones)
    /\ call = NoCall
    /\ nmoves = 0
    /\ probe = NoProbe
    /\ maximizer = NewBoard(0)
    /\ minimizer = NewBoard(0)
    /\ maxNxt = UNSET
    /\ minNxt = UNSET
    /\ ab = NoChoice
    /\ stack = <<>>
    /\ ret = NoReturn
    /\ iterations = 0
    /\ mc = NoSearch
    /\ tree = <<>>
    /\ moveNode = 0
    /\ consecutiveMoves = <<>>

gameVars == <<game, bd, player, pre, mid, call, nmoves>>

\* main, lines 305-313 for MINIMIZER: the pit comes from readMove
HumanMove ==
    /\ pc = "move"
    /\ player = MINIMIZER
    /\ \E pit \in HumanPicks : PlayPit(pit)
    /\ UNCHANGED searchVars

\* main, line 308: chooseAlphaBeta is called with a copy of the board;
\* lines 372-373
ChooseCall ==
    /\ pc = "move"
    /\ player = MAXIMIZER
    /\ ab' = [op |-> "chooseAlphaBeta", bd |-> bd,
              pit |-> nextPit(bd, MAXIMIZER, 0),
              bestpit |-> 0, bestvalue |-> 2 * LOSS, values |-> <<>>]
    /\ pc' = "choose"
    /\ UNCHANGED <<gameVars, probe, playoffVars, mcVars, maxDepth, stack, ret>>

\* chooseAlphaBeta, lines 376-394 for the pit ab.pit: the move is made on
\* a copy; the game is over, or alphaBeta is called with the full window
ChooseMove ==
    /\ pc = "choose"
    /\ ab.pit <= 5
    /\ \E c \in {moveAndCheck(ab.bd, ab.pit, MAXIMIZER)} :
          IF c.end
          THEN /\ ab' = rootGotValue(ab, terminalValue(c.winner, 0))
               /\ UNCHANGED <<pc, stack>>
          ELSE /\ stack' = <<newCall(c.bd, 1, MINIMIZER, 2 * LOSS, 2 * WIN)>>
               /\ pc' = "search"
               /\ UNCHANGED ab
    /\ UNCHANGED <<gameVars, probe, playoffVars, mcVars, maxDepth, ret>>

\* the value the innermost call of alphaBeta returns now, if it does:
\* lines 409-415 at the horizon, lines 445, 472 and 478 after the loop
Returning(f) == f.ply > maxPly \/ f.pit > 5
returnValue(f) ==
    IF f.ply > maxPly THEN staticValue(f.bd, f.ply) ELSE f.value

\* lines 439 and 466: the ply of the call made for a move, ply+plydelta
childPly_never(ply, plydelta) == ply
childPly_counted(ply, plydelta) == ply + 1
childPly(ply, plydelta) == ply + plydelta

\* alphaBeta, lines 425-440 and 453-467 for the pit of the innermost call:
\* the move is made on a copy; the game is over, or alphaBeta is called
AlphaBetaMove ==
    /\ pc = "search"
    /\ ~Returning(stack[Len(stack)])
    /\ \E f \in {stack[Len(stack)]} :
       \E c \in {moveAndCheck(f.bd, f.pit, f.player)} :
       LET n == Len(stack)
       IN stack' = IF c.end
                   THEN [stack EXCEPT
                           ![n] = gotValue(f, terminalValue(c.winner, f.ply))]
                   ELSE Append(stack,
                               newCall(c.bd, childPly(f.ply, c.plydelta),
                                       c.nextplayer, f.alpha, f.beta))
    /\ UNCHANGED <<gameVars, pc, probe, playoffVars, mcVars, maxDepth, ab, ret>>

\* the innermost call of alphaBeta returns to the call of alphaBeta that
\* made it (lines 439, 466) or to chooseAlphaBeta (line 393)
AlphaBetaReturn ==
    /\ pc = "search"
    /\ LET n == Len(stack)
           f == stack[n]
           v == returnValue(f)
       IN /\ Returning(f)
          /\ ret' = [op |-> "alphaBeta", bd |-> f.bd, ply |-> f.ply,
                     player |-> f.player, alpha |-> f.alpha, beta |-> f.beta,
                     value |-> v]
          /\ IF n = 1
             THEN /\ stack' = <<>>
                  /\ ab' = rootGotValue(ab, v)
                  /\ pc' = "choose"
             ELSE /\ stack' = [SubSeq(stack, 1, n - 1) EXCEPT
                                 ![n - 1] = gotValue(stack[n - 1], v)]
                  /\ UNCHANGED <<ab, pc>>
    /\ UNCHANGED <<gameVars, probe, playoffVars, mcVars, maxDepth>>

\* chooseAlphaBeta returns (line 402) and main makes the move (line 313)
ChooseReturn ==
    /\ pc = "choose"
    /\ ab.pit > 5
    /\ PlayPit(ab.bestpit)
    /\ UNCHANGED <<probe, playoffVars, abVars, mcVars>>

NextAB ==
    \/ HumanMove
    \/ ChooseCall
    \/ ChooseMove
    \/ AlphaBetaMove
    \/ AlphaBetaReturn
    \/ ChooseReturn
    \/ MainCheckEnd

SpecAB == InitAB /\ [][NextAB]_vars

\* the program goes on with its next statement as long as it has one
FairSpecAB == SpecAB /\ WF_vars(NextAB)

\* ------------------------------------------------ Monte Carlo tree search
\* The games played against the tree search: an opening that is played
\* pit by pit, and the search that follows it.
BookMC ==
    {[stones |-> 1, first |-> MAXIMIZER, free |-> 0,
      line |-> <<4, 5, 1, 3, 0, 2, 4>>],
     [stones |-> 1, first |-> MINIMIZER, free |-> 0,
      line |-> <<0, 4, 5, 4, 3, 3>>],
     [stones |-> 1, first |-> MAXIMIZER, free |-> 0,
      line |-> <<1, 3, 0, 2>>]}

\* remainingMoves(bd, player), lines 806-822; the order of the moves plays
\* no part, randomUntried draws any of them
remainingMoves_mover(b, p) == LegalPits(b, 0 - p)
remainingMoves(b, p) == LegalPits(b, p)

\* lines 623-633; wins2 counts half wins, so that a tie adds 1 and a win 2
rootNode_maxroot(b) ==
    [move |-> 0, player |-> MAXIMIZER, parent |-> 0,
     untriedMoves |-> {i \in Pits : b.maxpits[i] # 0},
     visits |-> 0, wins2 |-> 0]
rootNode_allpits(b) ==
    [move |-> 0, player |-> MINIMIZER, parent |-> 0,
     untriedMoves |-> Pits, visits |-> 0, wins2 |-> 0]
rootNode(b) ==
    [move |-> 0, player |-> MINIMIZER, parent |-> 0,
     untriedMoves |-> {i \in Pits : b.maxpits[i] # 0},
     visits |-> 0, wins2 |-> 0]

\* n.childNodes: the nodes appended to node n, in the order of creation
childNodes(n) ==
    SelectSeq([i \in 1..Len(tree) |-> i], LAMBDA i : tree[i].parent = n)

\* selectBestChild, lines 793-804, and ucb1, lines 824-828: the child with
\* the first largest score wins/visits + uctk * sqrt(ln(parent.visits + 1)
\* / visits). The score depends on the -U flag and on floating point; what
\* holds for every uctk is that among children with equal visits the one
\* with more wins, and among equal ones the first, has the larger score.
maySelect(kids, c) ==
    \A k \in 1..Len(kids) :
        LET d == kids[k]
        IN (d # c /\ tree[d].visits = tree[c].visits) =>
               \/ tree[d].wins2 < tree[c].wins2
               \/ tree[d].wins2 = tree[c].wins2 /\ c < d

\* lines 729-732
moreVisits(visits, mostVisits) == visits > mostVisits

RECURSIVE mostVisited(_, _, _)
\* lines 725-733: the loop over root.childNodes[1:] from index k on
mostVisited(kids, k, bestChild) ==
    IF k > Len(kids) THEN bestChild
    ELSE mostVisited(kids, k + 1,
                     IF moreVisits(tree[kids[k]].visits, tree[bestChild].visits)
                     THEN kids[k] ELSE bestChild)

\* line 735: int(wins / float64(visits) * 100.)
winPercent(n) == (n.wins2 * 100) \div (2 * n.visits)

RECURSIVE pathToRoot(_)
\* lines 713-721: the nodes the back propagation climbs through
pathToRoot_leaf(n) == {n}
pathToRoot_aboveleaf(n) ==
    IF tree[n].parent <= 1 THEN {1, n} ELSE {1, tree[n].parent}
pathToRoot(n) == IF n = 0 THEN {} ELSE {n} \cup pathToRoot(tree[n].parent)

InitMC ==
    /\ game \in BookMC
    /\ iterations \in 0..MaxIter
    /\ bd = NewBoard(stones)
    /\ player = game.first
    /\ pc = "move"
    /\ pre = NewBoard(stones)
    /\ mid = NewBoard(stones)
    /\ call = NoCall
    /\ nmoves = 0
    /\ probe = NoProbe
    /\ maximizer = NewBoard(0)
    /\ minimizer = NewBoard(0)
    /\ maxNxt = UNSET
    /\ minNxt = UNSET
    /\ maxDepth = 0
    /\ ab = NoChoice
    /\ stack = <<>>
    /\ ret = NoReturn
    /\ mc = NoSearch
    /\ tree = <<>>
    /\ moveNode = 0
    /\ consecutiveMoves = <<>>

\* main, lines 305-313 for MINIMIZER, in the opening
OpeningHumanMove ==
    /\ player = MINIMIZER
    /\ MainMakeMove

\* main, lines 307-313 for MAXIMIZER, in the opening. With no more
\* iterations than the root has moves, every iteration of chooseMonteCarlo
\* expands the root by a move drawn at random (lines 675-688), every child
\* has one visit at the end and the first one created is returned (lines
\* 725-735): the pit is any non-empty pit of MAXIMIZER.
OpeningComputerMove ==
    /\ pc = "move"
    /\ player = MAXIMIZER
    /\ nmoves < Len(game.line)
    /\ iterations >= 1
    /\ iterations <= Cardinality(LegalPits(bd, MAXIMIZER))
    /\ \E pit \in Picks : PlayPit(pit)
    /\ UNCHANGED searchVars

\* main, line 308: chooseMonteCarlo is called; lines 623-635
MonteCarloCall ==
    /\ pc = "move"
    /\ player = MAXIMIZER
    /\ nmoves >= Len(game.line) \/ iterations = 0
    /\ tree' = <<rootNode(bd)>>
    /\ mc' = [NoSearch EXCEPT !.op = "chooseMonteCarlo", !.bd = bd]
    /\ pc' = "iterate"
    /\ UNCHANGED <<gameVars, probe, playoffVars, abVars, reuseVars, iterations>>

\* lines 637-648: an iteration begins at the root with a copy of the board
Iterate ==
    /\ pc = "iterate"
    /\ mc.iter < iterations
    /\ mc' = [mc EXCEPT !.state = [maxpits |-> mc.bd.maxpits,
                                   minpits |-> mc.bd.minpits,
                                   player  |-> tree[1].player],
                        !.nextPlayer = 0 - tree[1].player,
                        !.node = 1]
    /\ pc' = "select"
    /\ UNCHANGED <<gameVars, probe, playoffVars,
                   abVars, reuseVars, iterations, tree>>

\* whether the loop of line 656 goes on from node n
Selecting(n) == tree[n].untriedMoves = {} /\ childNodes(n) # <<>>

\* lines 656-668: one pass of the selection loop
Selection ==
    /\ pc = "select"
    /\ Selecting(mc.node)
    /\ LET kids == childNodes(mc.node)
       IN \E k \in 1..Len(kids) :
            LET c == kids[k]
                r == makeMove(mc.state, tree[c].move, tree[c].player)
            IN /\ maySelect(kids, c)
               /\ ~r.panic
               /\ mc' = [mc EXCEPT !.node = c, !.state = r.bd,
                                   !.nextPlayer = r.nextplayer]
    /\ UNCHANGED <<gameVars, pc, probe, playoffVars,
                   abVars, reuseVars, iterations, tree>>

\* lines 673-693: the selection loop is left, checkEnd looks at the board
\* reached, and a node that has untried moves gets a new child
Expansion ==
    /\ pc = "select"
    /\ ~Selecting(mc.node)
    /\ \E e1 \in {checkEnd(mc.state, winningStonesCount)} :
       LET n == tree[mc.node]
       IN IF ~e1.end /\ n.untriedMoves # {}
          THEN \E mv \in n.untriedMoves :
               \E r \in {makeMove(e1.bd, mv, mc.nextPlayer)} :
               \E e2 \in {checkEnd(r.bd, winningStonesCount)} :
                 LET newChild ==
                        [move |-> mv, player |-> r.bd.player,
                         parent |-> mc.node,
                         untriedMoves |-> remainingMoves(r.bd, r.nextplayer),
                         visits |-> 0, wins2 |-> 0]
                 IN /\ ~r.panic
                    /\ tree' = Append([tree EXCEPT
                                         ![mc.node].untriedMoves = @ \ {mv}],
                                      newChild)
                    /\ mc' = [mc EXCEPT !.node = Len(tree) + 1,
                                        !.state = e2.bd,
                                        !.nextPlayer = r.nextplayer,
                                        !.gameEnd = e2.end,
                                        !.winner = e2.winner]
                    /\ pc' = IF e2.end THEN "backpropagate" ELSE "simulate"
          ELSE /\ mc' = [mc EXCEPT !.state = e1.bd, !.gameEnd = e1.end,
                                   !.winner = e1.winner]
               /\ pc' = IF e1.end THEN "backpropagate" ELSE "simulate"
               /\ UNCHANGED tree
    /\ UNCHANGED <<gameVars, probe, playoffVars, abVars, reuseVars, iterations>>

\* lines 700-704: one random move of the play-out (randomMove, lines
\* 738-755, draws pits until it finds one that holds stones)
Simulation ==
    /\ pc = "simulate"
    /\ \E mv \in LegalPits(mc.state, mc.nextPlayer) :
       \E r \in {makeMove(mc.state, mv, mc.nextPlayer)} :
       \E e \in {checkEnd(r.bd, winningStonesCount)} :
            /\ ~r.panic
            /\ mc' = [mc EXCEPT !.state = e.bd, !.nextPlayer = r.nextplayer,
                                !.gameEnd = e.end, !.winner = e.winner]
            /\ pc' = IF e.end THEN "backpropagate" ELSE "simulate"
    /\ UNCHANGED <<gameVars, probe, playoffVars,
                   abVars, reuseVars, iterations, tree>>

\* lines 712-721, and iter++ of line 637
BackPropagation ==
    /\ pc = "backpropagate"
    /\ LET path == pathToRoot(mc.node)
       IN tree' = [i \in 1..Len(tree) |->
                     IF i \in path
                     THEN [tree[i] EXCEPT
                             !.visits = @ + 1,
                             !.wins2 = IF mc.winner = tree[i].player
                                       THEN @ + 2
                                       ELSE IF mc.winner = 0 THEN @ + 1
                                       ELSE @]
                     ELSE tree[i]]
    /\ mc' = [mc EXCEPT !.iter = @ + 1, !.node = 0]
    /\ pc' = "iterate"
    /\ UNCHANGED <<gameVars, probe, playoffVars, abVars, reuseVars, iterations>>

\* lines 724-735: the iterations are spent; root.childNodes[0] is a
\* run-time panic when the root has no child; else the move of the child
\* chosen is returned and main makes it (line 313)
MonteCarloReturn ==
    /\ pc = "iterate"
    /\ mc.iter >= iterations
    /\ LET kids == childNodes(1)
       IN IF kids = <<>>
          THEN /\ mc' = [mc EXCEPT !.panic = TRUE]
               /\ pc' = "panic"
               /\ UNCHANGED gameVars
          ELSE LET bestChild == tree[mostVisited(kids, 2, kids[1])]
               IN /\ mc' = [mc EXCEPT !.bestpit = bestChild.move,
                                      !.value = winPercent(bestChild)]
                  /\ PlayPit(bestChild.move)
    /\ UNCHANGED <<probe, playoffVars, abVars, reuseVars, iterations, tree>>

NextMC ==
    \/ OpeningHumanMove
    \/ OpeningComputerMove
    \/ MonteCarloCall
    \/ Iterate
    \/ Selection
    \/ Expansion
    \/ Simulation
    \/ BackPropagation
    \/ MonteCarloReturn
    \/ MainCheckEnd

SpecMC == InitMC /\ [][NextMC]_vars

\* ------------------------------------------------ games played to the end
\* The games of BookMC, with every legal move of the human after the
\* opening and the move the tree search returns for the computer.
BookEnd == {[g EXCEPT !.free = MaxEnd] : g \in BookMC}

InitEnd ==
    /\ game \in BookEnd
    /\ iterations \in 1..MaxIter
    /\ bd = NewBoard(stones)
    /\ player = game.first
    /\ pc = "move"
    /\ pre = NewBoard(stones)
    /\ mid = NewBoard(stones)
    /\ call = NoCall
    /\ nmoves = 0
    /\ probe = NoProbe
    /\ maximizer = NewBoard(0)
    /\ minimizer = NewBoard(0)
    /\ maxNxt = UNSET
    /\ minNxt = UNSET
    /\ maxDepth = 0
    /\ ab = NoChoice
    /\ stack = <<>>
    /\ ret = NoReturn
    /\ mc = NoSearch
    /\ tree = <<>>
    /\ moveNode = 0
    /\ consecutiveMoves = <<>>

\* the program goes on with its next statement as long as it has one
SpecEnd == InitEnd /\ [][NextMC]_vars /\ WF_vars(NextMC)

\* ------------------------------- the tree kept between moves (part_004)
\* In src/unnamed/part_004 the search keeps the node of the move it chose
\* (MCTS.moveNode) and main hands the moves made since then to the next
\* call. makeMove and checkEnd of part_004 are the ones above without the
\* panic for an empty pit and without the player field of the board: for
\* the pits played here, which all hold stones, they do the same.
\* The games played: those of BookMC and one that leaves MAXIMIZER a
\* single move, each with the moves that follow the opening.
BookReuse ==
    {[g EXCEPT !.free = MaxExtra + 1] :
        g \in BookMC \cup {[stones |-> 1, first |-> MAXIMIZER, free |-> 0,
                            line |-> <<4, 4, 3, 3, 5, 2>>]}}

\* n.childNodes in tree t, in the order of creation
childrenIn(t, n) ==
    SelectSeq([i \in 1..Len(t) |-> i], LAMBDA i : t[i].parent = n)

\* GameState.GetMoves, part_004 lines 618-647
GetMoves(b, nextPlayer) ==
    [moves |-> LegalPits(b, nextPlayer),
     endOfGame |-> \/ SideSum(b.maxpits) = 0
                   \/ SideSum(b.minpits) = 0
                   \/ b.maxpits[6] > winningStonesCount
                   \/ b.minpits[6] > winningStonesCount]

\* GameState.GetResult, part_004 lines 649-674: 1 for the player who has
\* more stones in pits and store together, 0 for the other and for a tie
GetResult(b, playerJustMoved) ==
    LET maxStones == SumUpTo(b.maxpits, 6)
        minStones == SumUpTo(b.minpits, 6)
    IN IF maxStones > minStones
       THEN IF playerJustMoved = MAXIMIZER THEN 1 ELSE 0
       ELSE IF minStones > maxStones
       THEN IF playerJustMoved = MINIMIZER THEN 1 ELSE 0
       ELSE 0

\* UCT, part_004 lines 487-491: the root made when no node is handed in
freshRoot(b) ==
    [move |-> 0, player |-> MINIMIZER, parent |-> 0,
     untriedMoves |-> GetMoves(b, MAXIMIZER).moves,
     visits |-> 0, wins2 |-> 0]

\* Node.bestMove, part_004 lines 540-550, and Node.UCB1, lines 574-576: the
\* nodes it can return, 0 for nil. The score wins/visits + UCTK *
\* sqrt(ln(parentVisits)/visits) is floating point; for a UCTK above 0
\* (the default is 1.0) it is above the initial bestscore as soon as the
\* parent has 2 visits, and it is wins/visits when the parent has 1. A
\* child with no more visits and no smaller wins/visits than child c
\* scores at least as high as c, and of equal scores the first stays.
bestMove(t, p) ==
    LET kids == childrenIn(t, p)
        first(c) ==
            \A k \in 1..Len(kids) :
                LET d == kids[k]
                IN (/\ d # c
                    /\ t[d].visits <= t[c].visits
                    /\ t[d].wins2 * t[c].visits >= t[c].wins2 * t[d].visits) =>
                       /\ t[d].visits = t[c].visits
                       /\ t[d].wins2 = t[c].wins2
                       /\ c < d
        scored == {kids[k] : k \in 1..Len(kids)}
        above == {c \in scored : first(c) /\ (t[p].visits >= 2 \/ t[c].wins2 > 0)}
    IN IF above = {} THEN {0} ELSE above

RECURSIVE followMoves(_, _, _)
\* chooseMonteCarlo, part_004 lines 425-458: the loop over pastMoves[1:];
\* node 0 is nil
followMoves(t, startingNode, moves) ==
    IF moves = <<>> THEN [node |-> startingNode, tree |-> t]
    ELSE LET kids == childrenIn(t, startingNode)
             found == {k \in 1..Len(kids) : t[kids[k]].move = Head(moves)}
         IN IF found = {} THEN [node |-> 0, tree |-> t]
            ELSE LET n == kids[CHOOSE k \in found : \A j \in found : k <= j]
                 IN followMoves([t EXCEPT ![n].parent = 0], n, Tail(moves))

\* chooseMonteCarlo, part_004 lines 421-477: the node the search starts from
startingFrom(t, node, pastMoves) ==
    IF node = 0 THEN [node |-> 0, tree |-> t]
    ELSE LET w == followMoves(t, node, Tail(pastMoves))
         IN IF w.node # 0 /\ t[w.node].move # pastMoves[Len(pastMoves)]
            THEN [node |-> 0, tree |-> w.tree]
            ELSE w

RECURSIVE parentChain(_)
\* UCT, part_004 lines 530-533: the nodes from n up along parentNode
parentChain(n) == IF n = 0 THEN {} ELSE {n} \cup parentChain(tree[n].parent)

InitReuse ==
    /\ game \in BookReuse
    /\ iterations \in 1..MaxIter
    /\ bd = NewBoard(stones)
    /\ player = game.first
    /\ pc = "move"
    /\ pre = NewBoard(stones)
    /\ mid = NewBoard(stones)
    /\ call = NoCall
    /\ nmoves = 0
    /\ probe = NoProbe
    /\ maximizer = NewBoard(0)
    /\ minimizer = NewBoard(0)
    /\ maxNxt = UNSET
    /\ minNxt = UNSET
    /\ maxDepth = 0
    /\ ab = NoChoice
    /\ stack = <<>>
    /\ ret = NoReturn
    /\ mc = NoSearch
    /\ tree = <<>>
    /\ moveNode = 0
    /\ consecutiveMoves = <<>>

\* main, part_004 lines 124-126 and 135-136: the human's move
ReadMove ==
    /\ pc = "move"
    /\ player = MINIMIZER
    /\ \E pit \in Picks :
         /\ PlayPit(pit)
         /\ consecutiveMoves' = Append(consecutiveMoves, pit)
    /\ UNCHANGED <<probe, playoffVars, abVars, iterations, mc, tree, moveNode>>

\* main, part_004 lines 127-136, for MAXIMIZER in the opening. The node
\* kept has no child or there is none, so that UCT starts from a new root
\* (lines 488-491); with no more iterations than the root has moves, every
\* iteration adds a child to the root for a move drawn at random (lines
\* 506-511) and plays one game to its end from there (lines 513-521).
\* Every child ends with 1 visit, and bestMove returns the first of those
\* with the most wins; with one iteration the child must have won (UCB1
\* with 1 visit of the parent). Of the children only the one returned is
\* kept here: nothing reads its siblings again. others are the moves of
\* the siblings, won says whether the game of the child returned was won
\* by MAXIMIZER, lost is the number of games won by MINIMIZER.
OpeningSearch ==
    /\ pc = "move"
    /\ player = MAXIMIZER
    /\ nmoves < Len(game.line)
    /\ startingFrom(tree, moveNode, consecutiveMoves).node = 0
    /\ LET legal == GetMoves(bd, MAXIMIZER).moves
       IN \E pit \in Picks, others \in SUBSET legal,
             won \in BOOLEAN, lost \in 0..iterations :
            LET r == makeMove(bd, pit, MAXIMIZER)
                root == [freshRoot(bd) EXCEPT
                           !.untriedMoves = legal \ (others \cup {pit}),
                           !.visits = iterations,
                           !.wins2 = 2 * lost]
                bestmove == [move |-> pit, player |-> MAXIMIZER,
                             parent |-> 1,
                             untriedMoves |->
                                 GetMoves(r.bd, r.nextplayer).moves,
                             visits |-> 1,
                             wins2 |-> IF won THEN 2 ELSE 0]
            IN /\ pit \notin others
               /\ Cardinality(others) = iterations - 1
               /\ won \/ iterations >= 2
               /\ lost <= iterations - (IF won THEN 1 ELSE 0)
               /\ tree' = <<root, bestmove>>
               /\ moveNode' = 2
               /\ consecutiveMoves' = <<pit>>
               /\ PlayPit(pit)
    /\ UNCHANGED <<probe, playoffVars, abVars, iterations, mc>>

\* chooseMonteCarlo, part_004 lines 420-477, and UCT, lines 487-491: the
\* node the search starts from. A root made anew is the whole tree of the
\* search: the nodes of the tree before are not looked at again.
ChooseMonteCarloWalk ==
    /\ pc = "move"
    /\ player = MAXIMIZER
    /\ nmoves >= Len(game.line)
    /\ LET s == startingFrom(tree, moveNode, consecutiveMoves)
       IN /\ tree' = IF s.node = 0 THEN <<freshRoot(bd)>> ELSE s.tree
          /\ mc' = [NoSearch EXCEPT
                      !.op = "UCT", !.bd = bd,
                      !.rootNode = IF s.node = 0 THEN 1 ELSE s.node,
                      !.startingNode = moveNode,
                      !.pastMoves = consecutiveMoves,
                      !.before = tree]
    /\ pc' = "uct"
    /\ UNCHANGED <<gameVars, probe, playoffVars, abVars, iterations, reuseVars>>

\* UCT, part_004 lines 493-496: an iteration begins. Of the calls made
\* after the moves of the game explored, only the walk is looked at.
UCTIterate ==
    /\ pc = "uct"
    /\ mc.iter < iterations
    /\ nmoves < Len(game.line) + game.free
    /\ mc' = [mc EXCEPT !.node = mc.rootNode,
                        !.state = [maxpits |-> mc.bd.maxpits,
                                   minpits |-> mc.bd.minpits,
                                   player  |-> MINIMIZER],
                        !.nextPlayer = MAXIMIZER,
                        !.before = <<>>]
    /\ pc' = "uct_select"
    /\ UNCHANGED <<gameVars, probe, playoffVars,
                   abVars, iterations, tree, reuseVars>>

\* part_004 line 498: whether the loop goes on from node n
UCTSelecting(n) == tree[n].untriedMoves = {} /\ childrenIn(tree, n) # <<>>

\* UCT, part_004 lines 498-501, and UCTSelectChild, lines 552-572; a nil
\* node is a run-time panic at node.move
UCTSelectChild ==
    /\ pc = "uct_select"
    /\ UCTSelecting(mc.node)
    /\ LET kids == childrenIn(tree, mc.node)
       IN \E n \in (IF Len(kids) = 1 THEN {kids[1]}
                    ELSE bestMove(tree, mc.node)) :
            IF n = 0
            THEN /\ mc' = [mc EXCEPT !.panic = TRUE]
                 /\ pc' = "panic"
            ELSE LET r == makeMove(mc.state, tree[n].move, mc.nextPlayer)
                 IN /\ mc' = [mc EXCEPT !.node = n, !.state = r.bd,
                                        !.nextPlayer = r.nextplayer]
                    /\ pc' = pc
    /\ UNCHANGED <<gameVars, probe, playoffVars,
                   abVars, iterations, tree, reuseVars>>

\* UCT, part_004 lines 506-513, and AddChild, lines 582-595: a node with
\* untried moves gets a child; then GetMoves says whether a game is played
UCTAddChild ==
    /\ pc = "uct_select"
    /\ ~UCTSelecting(mc.node)
    /\ IF tree[mc.node].untriedMoves # {}
       THEN \E m \in tree[mc.node].untriedMoves :
              LET r == makeMove(mc.state, m, mc.nextPlayer)
                  g == GetMoves(r.bd, r.nextplayer)
                  n == [move |-> m, player |-> mc.nextPlayer,
                        parent |-> mc.node, untriedMoves |-> g.moves,
                        visits |-> 0, wins2 |-> 0]
              IN /\ tree' = Append([tree EXCEPT
                                      ![mc.node].untriedMoves = @ \ {m}], n)
                 /\ mc' = [mc EXCEPT !.node = Len(tree) + 1, !.state = r.bd,
                                     !.nextPlayer = r.nextplayer]
                 /\ pc' = IF g.endOfGame THEN "uct_update" ELSE "uct_rollout"
       ELSE /\ pc' = IF GetMoves(mc.state, mc.nextPlayer).endOfGame
                     THEN "uct_update" ELSE "uct_rollout"
            /\ UNCHANGED <<mc, tree>>
    /\ UNCHANGED <<gameVars, probe, playoffVars, abVars, iterations, reuseVars>>

\* UCT, part_004 lines 517-521: one random move of the game played out
UCTRollout ==
    /\ pc = "uct_rollout"
    /\ \E m \in GetMoves(mc.state, mc.nextPlayer).moves :
         LET r == makeMove(mc.state, m, mc.nextPlayer)
         IN /\ mc' = [mc EXCEPT !.state = r.bd, !.nextPlayer = r.nextplayer]
            /\ pc' = IF GetMoves(r.bd, r.nextplayer).endOfGame
                     THEN "uct_update" ELSE "uct_rollout"
    /\ UNCHANGED <<gameVars, probe, playoffVars,
                   abVars, iterations, tree, reuseVars>>

\* UCT, part_004 lines 529-534, and Update, lines 597-600
UCTUpdate ==
    /\ pc = "uct_update"
    /\ LET chain == parentChain(mc.node)
       IN tree' = [i \in 1..Len(tree) |->
                     IF i \in chain
                     THEN [tree[i] EXCEPT
                             !.visits = @ + 1,
                             !.wins2 = @ + 2 * GetResult(mc.state,
                                                         tree[i].player)]
                     ELSE tree[i]]
    /\ mc' = [mc EXCEPT !.iter = @ + 1, !.node = 0]
    /\ pc' = "uct"
    /\ UNCHANGED <<gameVars, probe, playoffVars, abVars, iterations, reuseVars>>

\* UCT, part_004 lines 536-537, chooseMonteCarlo, lines 478-480, and main,
\* lines 130-136: the node of the best move is kept and the move is made;
\* bestmove.move of a nil node is a run-time panic
UCTReturn ==
    /\ pc = "uct"
    /\ mc.iter >= iterations
    /\ nmoves < Len(game.line) + game.free
    /\ \E bestmove \in bestMove(tree, mc.rootNode) :
         IF bestmove = 0
         THEN /\ mc' = [mc EXCEPT !.panic = TRUE]
              /\ pc' = "panic"
              /\ UNCHANGED <<gameVars, reuseVars>>
         ELSE /\ mc' = [mc EXCEPT !.bestpit = tree[bestmove].move]
              /\ moveNode' = bestmove
              /\ consecutiveMoves' = <<tree[bestmove].move>>
              /\ PlayPit(tree[bestmove].move)
    /\ UNCHANGED <<probe, playoffVars, abVars, iterations, tree>>

NextReuse ==
    \/ ReadMove
    \/ OpeningSearch
    \/ ChooseMonteCarloWalk
    \/ UCTIterate
    \/ UCTSelectChild
    \/ UCTAddChild
    \/ UCTRollout
    \/ UCTUpdate
    \/ UCTReturn
    \/ MainCheckEnd

SpecReuse == InitReuse /\ [][NextReuse]_vars

\* ------------------------------------------ the playoff program (part_007)
\* The games of the playoff: -n stones per pit; MAXIMIZER, the first
\* player, always moves first (line 78).
BookPlayoff ==
    {[stones |-> n, first |-> MAXIMIZER, line |-> <<>>, free |-> MaxPlayoff] :
        n \in 1..2}

\* lines 69-76 and constructPlayer, lines 560-563: the referee and both
\* players start from the board with -n stones in each pit
InitPlayoff ==
    /\ game \in BookPlayoff
    /\ bd = NewBoard(stones)
    /\ player = MAXIMIZER
    /\ pc = "move"
    /\ pre = NewBoard(stones)
    /\ mid = NewBoard(stones)
    /\ call = NoCall
    /\ nmoves = 0
    /\ probe = NoProbe
    /\ maximizer = NewBoard(stones)
    /\ minimizer = NewBoard(stones)
    /\ maxNxt = UNSET
    /\ minNxt = UNSET
    /\ maxDepth = 0
    /\ ab = NoChoice
    /\ stack = <<>>
    /\ ret = NoReturn
    /\ iterations = 0
    /\ mc = NoSearch
    /\ tree = <<>>
    /\ moveNode = 0
    /\ consecutiveMoves = <<>>

\* lines 93 and 102: each player's moveFn is given the player's own board,
\* on which the player is MAXIMIZER, and returns one of its non-empty pits
moveFn(own) == LegalPits(own, MAXIMIZER)

\* the pits the player to move may return at this point of the game
PlayoffPicks ==
    IF nmoves < game.free
    THEN moveFn(IF player = MAXIMIZER THEN maximizer ELSE minimizer)
    ELSE {}

\* lines 95-96 and 104-105: the player a board's owner calls the mover.
\* The first player's board is the referee's; on the second player's board
\* the second player is MAXIMIZER.
moverOn(owner, mover) == IF owner = MAXIMIZER THEN mover ELSE 0 - mover

\* GAMELOOP, lines 91-110: the player to move chooses a pit; the move is
\* made on both players' boards and then on the referee's.
PlayoffMove ==
    /\ pc = "move"
    /\ \E pit \in PlayoffPicks :
       \E rmax \in {makeMove(maximizer, pit, moverOn(MAXIMIZER, player))} :
       \E rmin \in {makeMove(minimizer, pit, moverOn(MINIMIZER, player))} :
          IF rmax.panic \/ rmin.panic \/ makeMove(bd, pit, player).panic
          THEN /\ pc' = "panic"
               /\ UNCHANGED <<gameVars, playoffVars>>
          ELSE /\ maximizer' = rmax.bd
               /\ minimizer' = rmin.bd
               /\ maxNxt' = rmax.nextplayer
               /\ minNxt' = rmin.nextplayer
               /\ PlayPit(pit)
    /\ UNCHANGED <<probe, abVars, mcVars>>

\* compare3, lines 581-593: the indexes at which "Boards disagree" is
\* printed
compare3(ref, max, min) ==
    {i \in Slots : \/ ref.maxpits[i] # max.maxpits[i]
                   \/ ref.maxpits[i] # min.minpits[i]
                   \/ ref.minpits[i] # max.minpits[i]
                   \/ ref.minpits[i] # min.maxpits[i]}

\* line 113: the test before the three "says ... goes next" lines
nextDisagree(p, maxN, minN) == p # maxN \/ p # 0 - minN

\* GAMELOOP, lines 111-126: checkEnd is called with the referee's board
\* only; the loop is left when it reports the end of the game.
PlayoffCheckEnd ==
    /\ pc = "check"
    /\ \E r \in {checkEnd(bd, winningStonesCount)} :
          /\ bd' = r.bd
          /\ mid' = bd
          /\ call' = [call EXCEPT !.op = "checkEnd", !.end = r.end,
                                  !.winner = r.winner]
          /\ pc' = IF r.end THEN "done" ELSE "move"
    /\ UNCHANGED <<game, player, pre, nmoves>>
    /\ UNCHANGED searchVars

NextPlayoff == PlayoffMove \/ PlayoffCheckEnd

SpecPlayoff == InitPlayoff /\ [][NextPlayoff]_vars

\* ------------------------------------------------- the last call, described
\* the array of player p and the array of the other player
Own(b, p) == IF p = MAXIMIZER THEN b.maxpits ELSE b.minpits
Opp(b, p) == IF p = MAXIMIZER THEN b.minpits ELSE b.maxpits

\* makeMove has returned and checkEnd has not been called yet: pre is the
\* board it was given, bd the board it left
AfterMove == pc = "check"
\* checkEnd has returned: mid is the board it was given, bd the board it left
AfterCheck == call.op = "checkEnd"

\* the stones taken from the pit of the last move
Hand == Own(pre, call.mover)[call.pit]

\* The sowing path seen from the mover is a ring of 13 places: 0..5 the
\* mover's pits, 6 the mover's store, 7..12 the opponent's pits 0..5.
\* Drops(place) is the number of the Hand stones that go to a place.
Drops(place) ==
    Cardinality({k \in 1..Hand : (call.pit + k) % 13 = place})
\* where the last stone goes
LastPlace == (call.pit + Hand) % 13

\* the board the sowing alone would leave, captures aside
SownOwn(i) ==
    (IF i = call.pit THEN 0 ELSE Own(pre, call.mover)[i]) + Drops(i)
SownOpp(i) ==
    Opp(pre, call.mover)[i] + (IF i < 6 THEN Drops(7 + i) ELSE 0)

\* the last stone goes to a pit of the mover that was empty just before
LandsOnEmptyOwn == LastPlace < 6 /\ SownOwn(LastPlace) = 1
\* the opponent's pit across from the pit the last stone goes to, before the
\* move and at the moment the last stone lands
AcrossBefore == Opp(pre, call.mover)[5 - LastPlace]
AcrossAtLanding == SownOpp(5 - LastPlace)

\* ----------------------------------------------------------------- claims
\* C1: in a game started from a new board with s stones per pit, after any
\* sequence of makeMove and checkEnd calls the 12 pits and the 2 stores
\* hold 12*s stones together.
C1_Conservation == Total(bd) = 12 * stones

C1_Witness ==
    /\ AfterCheck /\ call.end /\ bd # mid
    /\ Total(bd) = 12 * stones

\* C2: makeMove returns nextplayer = player with plydelta = 0 exactly when
\* the hand h taken from pit p is congruent to 6-p modulo 13, and
\* nextplayer = -player with plydelta = 1 in every other case.
C2_BonusRule ==
    AfterMove =>
        IF (Hand - (6 - call.pit)) % 13 = 0
        THEN call.nextplayer = call.mover /\ call.plydelta = 0
        ELSE call.nextplayer = 0 - call.mover /\ call.plydelta = 1

\* the move from pit 2 of a new board of 4 stones per pit earned a bonus
C2_Witness ==
    /\ AfterMove /\ pre = NewBoard(4) /\ call.pit = 2
    /\ call.nextplayer = call.mover /\ call.plydelta = 0

\* C3 as stated: the last stone lands in an empty own pit j and the pit
\* across held n > 0 stones before the move; then both pits end at 0 and
\* the mover's store has grown by exactly n+1.
C3_AsStated ==
    (AfterMove /\ LandsOnEmptyOwn /\ AcrossBefore > 0) =>
        /\ Own(bd, call.mover)[LastPlace] = 0
        /\ Opp(bd, call.mover)[5 - LastPlace] = 0
        /\ Own(bd, call.mover)[6] = Own(pre, call.mover)[6] + AcrossBefore + 1

\* C3 amended: n is what the pit across holds when the last stone lands
\* (its stones before the move and the stones this sowing put in it); both
\* pits end at 0 and the store grows by n+1 on top of the stones sown in it.
C3_Capture ==
    (AfterMove /\ LandsOnEmptyOwn /\ AcrossAtLanding > 0) =>
        /\ Own(bd, call.mover)[LastPlace] = 0
        /\ Opp(bd, call.mover)[5 - LastPlace] = 0
        /\ Own(bd, call.mover)[6] =
              Own(pre, call.mover)[6] + Drops(6) + AcrossAtLanding + 1

\* a capture made by a sowing that went round the opponent's side
C3_Witness ==
    /\ AfterMove /\ LandsOnEmptyOwn /\ AcrossBefore > 0
    /\ call.pit + Hand >= 13
    /\ Own(bd, call.mover)[6] = Own(pre, call.mover)[6] + AcrossBefore + 3

\* C4: makeMove leaves the opponent's store as it was, and passing it takes
\* no stone from the hand: all stones are still on the board.
C4_OpponentStore ==
    AfterMove =>
        /\ Opp(bd, call.mover)[6] = Opp(pre, call.mover)[6]
        /\ Total(bd) = Total(pre)

\* a sowing that passed the opponent's store
C4_Witness ==
    /\ AfterMove /\ call.pit + Hand >= 13
    /\ Opp(bd, call.mover)[6] = Opp(pre, call.mover)[6]

\* C5: a store above 6*s makes checkEnd report the end with its owner as
\* winner and leave the board as it was, whatever the pits hold.
C5_EarlyWin ==
    AfterCheck =>
        /\ mid.maxpits[6] > 6 * stones =>
              call.end /\ call.winner = MAXIMIZER /\ bd = mid
        /\ mid.minpits[6] > 6 * stones =>
              call.end /\ call.winner = MINIMIZER /\ bd = mid

\* an early win with stones left on both sides
C5_Witness ==
    /\ AfterCheck /\ call.end /\ bd = mid
    /\ mid.maxpits[6] > 6 * stones \/ mid.minpits[6] > 6 * stones
    /\ SideSum(mid.maxpits) > 0 /\ SideSum(mid.minpits) > 0

\* what the terminal sweep leaves of the board checkEnd was given
Swept ==
    /\ call.end
    /\ \A i \in Pits : bd.maxpits[i] = 0 /\ bd.minpits[i] = 0
    /\ bd.maxpits[6] = mid.maxpits[6] + SideSum(mid.maxpits)
    /\ bd.minpits[6] = mid.minpits[6] + SideSum(mid.minpits)

OneSideEmpty ==
    (SideSum(mid.maxpits) = 0) # (SideSum(mid.minpits) = 0)

\* C6 as stated: on every board with one side empty and the other not,
\* checkEnd reports the end and sweeps the other side into its store.
C6_AsStated == (AfterCheck /\ OneSideEmpty) => Swept

\* C6 amended: the same, on every such board where neither store is above
\* 6*s.
C6_TerminalSweep ==
    (/\ AfterCheck /\ OneSideEmpty
     /\ mid.maxpits[6] <= 6 * stones /\ mid.minpits[6] <= 6 * stones) => Swept

C6_Witness ==
    /\ AfterCheck /\ OneSideEmpty /\ Swept /\ bd # mid
    /\ mid.maxpits[6] <= 6 * stones /\ mid.minpits[6] <= 6 * stones

\* C7: when checkEnd reports the end, the winner is MAXIMIZER iff the
\* MAXIMIZER store is the larger one on the board it leaves, MINIMIZER iff
\* it is the smaller one, UNSET iff the stores are equal.
C7_WinnerRule ==
    (AfterCheck /\ call.end) =>
        /\ call.winner = MAXIMIZER <=> bd.maxpits[6] > bd.minpits[6]
        /\ call.winner = MINIMIZER <=> bd.maxpits[6] < bd.minpits[6]
        /\ call.winner = UNSET <=> bd.maxpits[6] = bd.minpits[6]

\* a game that ended in a tie
C7_Witness ==
    /\ AfterCheck /\ call.end /\ call.winner = UNSET
    /\ bd.maxpits[6] = bd.minpits[6]

\* C8: after a move that did not end the game the player asked next is the
\* mover if the last stone went to the mover's store, the opponent if not.
C8_TurnOrder ==
    (pc = "move" /\ AfterCheck) =>
        player = IF LastPlace = 6 THEN call.mover ELSE 0 - call.mover

\* a bonus move followed by another bonus move of the same player
C8_Witness ==
    /\ pc = "move" /\ AfterCheck /\ call.chain >= 2
    /\ LastPlace = 6 /\ player = call.mover

\* C9 as stated: the last stone lands in an empty own pit j and the pit
\* across held no stone before the move; then pit j ends with 1 stone and
\* the store has only the stones sown in it.
C9_AsStated ==
    (AfterMove /\ LandsOnEmptyOwn /\ AcrossBefore = 0) =>
        /\ Own(bd, call.mover)[LastPlace] = 1
        /\ Own(bd, call.mover)[6] = Own(pre, call.mover)[6] + Drops(6)

\* C9 amended: the same when the pit across holds no stone at the moment
\* the last stone lands; it is then still empty after the move.
C9_NoCapture ==
    (AfterMove /\ LandsOnEmptyOwn /\ AcrossAtLanding = 0) =>
        /\ Own(bd, call.mover)[LastPlace] = 1
        /\ Opp(bd, call.mover)[5 - LastPlace] = 0
        /\ Own(bd, call.mover)[6] = Own(pre, call.mover)[6] + Drops(6)

C9_Witness ==
    /\ AfterMove /\ LandsOnEmptyOwn /\ AcrossAtLanding = 0
    /\ Own(bd, call.mover)[LastPlace] = 1

\* C10: the stones that are not the last one only add to pits (every place
\* but the landing pit, the pit across and the mover's store holds what the
\* sowing gave it), and a last stone that lands in the mover's store, in an
\* opponent's pit or in a non-empty own pit leaves the whole board as the
\* sowing made it: nothing moves from a pit to a store.
C10_LastStoneOnly ==
    AfterMove =>
        /\ \A i \in Pits :
              /\ i # LastPlace => Own(bd, call.mover)[i] = SownOwn(i)
              /\ i # 5 - LastPlace => Opp(bd, call.mover)[i] = SownOpp(i)
        /\ ~LandsOnEmptyOwn =>
              /\ \A i \in Slots : Own(bd, call.mover)[i] = SownOwn(i)
              /\ \A i \in Slots : Opp(bd, call.mover)[i] = SownOpp(i)

\* the last stone landed in an empty pit of the opponent across from a
\* pit of the mover that holds stones, and stayed there
C10_Witness ==
    /\ AfterMove /\ LastPlace > 6
    /\ SownOpp(LastPlace - 7) = 1
    /\ Opp(bd, call.mover)[LastPlace - 7] = 1
    /\ Own(bd, call.mover)[12 - LastPlace] > 0

\* C11: after every makeMove and every checkEnd of a game each of the 12
\* pits and both stores holds 0 or more stones; the -1 written to the
\* landing pit during a capture is gone when makeMove returns.
C11_NonNegative ==
    \A i \in Slots : bd.maxpits[i] >= 0 /\ bd.minpits[i] >= 0

\* a capture has just been made: the landing pit holds 0, not -1
C11_Witness ==
    /\ AfterMove /\ LandsOnEmptyOwn /\ AcrossAtLanding > 0
    /\ Own(bd, call.mover)[LastPlace] = 0
    /\ \A i \in Slots : bd.maxpits[i] >= 0 /\ bd.minpits[i] >= 0

\* C19: no makeMove and no checkEnd of a game makes a store smaller.
C19_StoresGrow ==
    [][/\ bd'.maxpits[6] >= bd.maxpits[6]
       /\ bd'.minpits[6] >= bd.minpits[6]]_vars

\* a store that held stones got more, by a move and then by the sweep
C19_Witness ==
    /\ AfterCheck /\ call.end
    /\ Own(pre, call.mover)[6] > 0
    /\ Own(mid, call.mover)[6] > Own(pre, call.mover)[6]
    /\ Own(bd, call.mover)[6] > Own(mid, call.mover)[6]

\* C20: whenever main is about to ask for a move (the game has just begun
\* or checkEnd has returned end = false), the player asked has a pit that
\* is not empty, and the move that was made took stones from its pit.
C20_MoverHasMove ==
    /\ pc = "move" => LegalPits(bd, player) # {}
    /\ AfterMove => Hand > 0

\* checkEnd returned false after a move that emptied all but one of the
\* pits of the player who moves next
C20_Witness ==
    /\ pc = "move" /\ AfterCheck /\ ~call.end
    /\ Cardinality(LegalPits(bd, player)) = 1
    /\ Cardinality(LegalPits(pre, player)) > 1

\* C17: makeMove called with a pit outside 0..5, or with a pit that holds
\* no stone, does not return: it stops with a panic.
C17_IllegalMoveHalts ==
    (/\ probe.op = "makeMove"
     /\ \/ probe.pit \notin Pits
        \/ Own(bd, probe.player)[probe.pit] = 0) => probe.panic

\* pit 6 of a player whose store holds stones: the store is picked up and
\* the first stone is dropped beyond the end of the array
C17_Witness ==
    /\ probe.op = "makeMove" /\ probe.pit = 6 /\ probe.panic
    /\ Own(bd, probe.player)[6] > 0
    /\ Own(probe.bd, probe.player)[6] = 0

\* the depth-limited minimax value of board b with p to move at ply
RECURSIVE Minimax(_, _, _)
MinimaxChild(b, ply, p, pit) ==
    LET c == moveAndCheck(b, pit, p)
    IN IF c.end THEN terminalValue(c.winner, ply)
       ELSE Minimax(c.bd, ply + c.plydelta, c.nextplayer)
Minimax(b, ply, p) ==
    IF ply > maxPly THEN staticValue(b, ply)
    ELSE LET vals == {MinimaxChild(b, ply, p, pit) : pit \in LegalPits(b, p)}
         IN IF p = MAXIMIZER
            THEN CHOOSE v \in vals : \A w \in vals : w <= v
            ELSE CHOOSE v \in vals : \A w \in vals : v <= w

\* C12: alphaBeta called with the window (2*LOSS, 2*WIN) returns the
\* depth-limited minimax value of the board: the maximum of the values of
\* the children at a MAXIMIZER node, the minimum at a MINIMIZER node.
C12_MinimaxValue ==
    (/\ ret.op = "alphaBeta"
     /\ pc = "choose"
     /\ ret.ply = 1) => ret.value = Minimax(ret.bd, ret.ply, ret.player)

\* chooseAlphaBeta has returned and main has made its move
AfterChoose == ab.op = "chooseAlphaBeta" /\ pc = "check" /\ call.mover = MAXIMIZER

\* the values computed for the root moves, by pit
RootValues == {ab.values[k] : k \in 1..Len(ab.values)}

\* C13: chooseAlphaBeta returns a pit of 0..5 that holds a stone on
\* MAXIMIZER's side, with the value computed for that pit, and no root
\* move has a larger computed value.
C13_PlayableBest ==
    AfterChoose =>
        /\ ab.bestpit \in Pits
        /\ ab.bd.maxpits[ab.bestpit] >= 1
        /\ call.pit = ab.bestpit
        /\ <<ab.bestpit, ab.bestvalue>> \in RootValues
        /\ \A pv \in RootValues : pv[2] <= ab.bestvalue
        /\ {pv[1] : pv \in RootValues} = LegalPits(ab.bd, MAXIMIZER)

\* the search looked ahead, pit 0 was empty and the pit returned is not
\* the first one that holds stones
C13_Witness ==
    /\ AfterChoose
    /\ maxDepth > 0
    /\ ab.bd.maxpits[0] = 0
    /\ \E pv \in RootValues : pv[1] < ab.bestpit /\ pv[2] < ab.bestvalue

\* chooseMonteCarlo has returned and main has made its move
AfterMonteCarlo ==
    mc.op = "chooseMonteCarlo" /\ pc = "check" /\ call.mover = MAXIMIZER

\* C14: chooseMonteCarlo, called on a board that is not terminal and on
\* which MAXIMIZER has a non-empty pit, does not panic whatever the number
\* of iterations, and returns a pit of 0..5 that holds a stone on
\* MAXIMIZER's side.
C14_Total ==
    /\ ~mc.panic
    /\ AfterMonteCarlo =>
           /\ mc.bestpit \in Pits
           /\ mc.bd.maxpits[mc.bestpit] >= 1

\* the children of the root that have the largest number of visits
RootMostVisited ==
    {c \in 2..Len(tree) :
        /\ tree[c].parent = 1
        /\ \A d \in 2..Len(tree) :
               tree[d].parent = 1 => tree[d].visits <= tree[c].visits}

\* C15: chooseMonteCarlo returns the move of a child of the root that has
\* the largest number of visits among the children of the root, and of the
\* children that share that number, the one with the lowest pit.
C15_MostVisitedLowestPit ==
    AfterMonteCarlo =>
        /\ \E c \in RootMostVisited : tree[c].move = mc.bestpit
        /\ \A c \in RootMostVisited : mc.bestpit <= tree[c].move

\* chooseMonteCarlo of part_004 was called with a node kept from the call
\* before and has settled the node the search starts from
AfterWalk == mc.op = "UCT" /\ pc = "uct" /\ mc.iter = 0 /\ mc.startingNode # 0

RECURSIVE Descendant(_, _, _)
\* the node reached from node n of tree t through children whose moves
\* are those of moves, one after the other; 0 when a child is missing
Descendant(t, n, moves) ==
    IF moves = <<>> THEN n
    ELSE LET next == {c \in 1..Len(t) :
                         t[c].parent = n /\ t[c].move = Head(moves)}
         IN IF next = {} THEN 0
            ELSE Descendant(t, CHOOSE c \in next : TRUE, Tail(moves))

\* C18: called with a node kept and the moves made since the computer's
\* last one, chooseMonteCarlo follows pastMoves[1:] through the children;
\* when every move has its child, the node reached is the root of the new
\* search and its parent reference is cleared; when a child is missing,
\* the search starts from a new root whose untried moves are MAXIMIZER's
\* non-empty pits.
C18_TreeReuse ==
    AfterWalk =>
        LET reached == Descendant(mc.before, mc.startingNode,
                                  Tail(mc.pastMoves))
        IN IF reached # 0
           THEN /\ mc.rootNode = reached
                /\ tree[reached] = [mc.before[reached] EXCEPT !.parent = 0]
           ELSE /\ mc.rootNode = 1
                /\ tree = <<[move |-> 0, player |-> MINIMIZER, parent |-> 0,
                             untriedMoves |->
                                 {i \in Pits : mc.bd.maxpits[i] > 0},
                             visits |-> 0, wins2 |-> 0]>>

\* C21: every game ends. Whatever legal moves are picked, the main loop
\* reaches the end of the game that checkEnd reports, and every play-out
\* of the tree search, once begun, reaches its end.
C21_EveryGameEnds ==
    /\ <>(pc = "done")
    /\ (pc = "simulate") ~> (pc = "backpropagate")

\* a game that ended after moves the human picked freely and after a
\* search of the computer that played a game out
C21_Witness ==
    /\ pc = "done"
    /\ nmoves >= Len(game.line) + 3
    /\ mc.op = "chooseMonteCarlo"
    /\ mc.gameEnd

\* alphaBeta is running for the root move of pit ab.pit; the outermost
\* call on the stack is the one chooseAlphaBeta made (line 393)
RootCall == stack[1]

\* C22: chooseAlphaBeta evaluates the position after each root move with
\* the side to move that makeMove reported: after a root move that earns a
\* bonus turn alphaBeta is entered for MAXIMIZER and no ply is counted,
\* after any other root move for MINIMIZER at ply 1.
C22_RootBonus ==
    pc = "search" =>
        LET m == makeMove(ab.bd, ab.pit, MAXIMIZER)
        IN /\ RootCall.player = m.nextplayer
           /\ RootCall.ply = m.plydelta

\* the call of alphaBeta the claims expect above frame k of the stack, for
\* the move of pit stack[k].pit: the move earns a bonus turn when its last
\* stone, sown round the 13 places the mover sows into, lands in place 6
ChildOf(k) ==
    LET f == stack[k]
        hand == Own(f.bd, f.player)[f.pit]
        bonus == (f.pit + hand) % 13 = 6
    IN [ply |-> IF bonus THEN f.ply ELSE f.ply + 1,
        player |-> IF bonus THEN f.player ELSE 0 - f.player]

\* C23: inside alphaBeta at ply p for player P, a move that does not end
\* the game is searched by a call at ply p for P when it earned a bonus
\* turn, and at ply p + 1 for the opponent of P otherwise.
C23_BonusKeepsPly ==
    pc = "search" =>
        \A k \in 1..(Len(stack) - 1) :
            /\ stack[k + 1].ply = ChildOf(k).ply
            /\ stack[k + 1].player = ChildOf(k).player

\* a bonus move and a move that passes the turn, both inside the search:
\* three calls deep, the second at the ply of the first
C23_Witness ==
    /\ pc = "search"
    /\ Len(stack) >= 3
    /\ stack[2].ply = stack[1].ply
    /\ stack[2].player = stack[1].player
    /\ stack[3].ply = stack[2].ply + 1
    /\ stack[3].player = 0 - stack[2].player

\* the value the claims expect for a move that ends the game with the
\* winner checkEnd reports, made at a node of ply p
EndValue(winner, p) ==
    IF winner = MAXIMIZER THEN 10000 - p
    ELSE IF winner = MINIMIZER THEN p - 10000
    ELSE 0

\* C24: a move that ends the game is valued WIN - p when MAXIMIZER wins,
\* LOSS + p when MINIMIZER wins and 0 on a tie, p being the ply of the
\* node at which the move is made, 0 for a root move.
C24_TerminalValues ==
    [][/\ (pc = "search" /\ pc' = "search" /\ Len(stack') = Len(stack)) =>
            LET f == stack[Len(stack)]
                c == moveAndCheck(f.bd, f.pit, f.player)
            IN /\ c.end
               /\ stack'[Len(stack)].value = EndValue(c.winner, f.ply)
       /\ (pc = "choose" /\ pc' = "choose" /\ ab.pit <= 5) =>
            LET c == moveAndCheck(ab.bd, ab.pit, MAXIMIZER)
            IN /\ c.end
               /\ ab'.values[Len(ab'.values)] =
                      <<ab.pit, EndValue(c.winner, 0)>>]_vars

\* inside the search MAXIMIZER has made, at ply 2, a move that ended the
\* game with MINIMIZER the winner
C24_Witness ==
    /\ pc = "search"
    /\ \E k \in 1..Len(stack) :
           /\ stack[k].ply = 2
           /\ stack[k].player = MAXIMIZER
           /\ stack[k].value = LOSS + 2

\* the board of frame k of the stack was reached by a bonus move: the last
\* stone of the move that led to it landed in the mover's store, and the
\* mover is due to move again
ReachedByBonus(k) ==
    IF k = 1
    THEN (ab.pit + ab.bd.maxpits[ab.pit]) % 13 = 6
    ELSE LET f == stack[k - 1]
         IN (f.pit + Own(f.bd, f.player)[f.pit]) % 13 = 6

\* C25: for any configured depth, the static evaluation of a call with
\* ply > maxPly is never applied to a position that was reached by a bonus
\* move.
C25_NoHorizonInBonusChain ==
    pc = "search" =>
        \A k \in 1..Len(stack) :
            stack[k].ply > maxPly => ~ReachedByBonus(k)

\* the calls on the stack that are at the ply of frame k
SamePly(k) == {j \in 1..Len(stack) : stack[j].ply = stack[k].ply}

\* C26: alpha-beta terminates despite bonus moves. Every bonus move inside
\* the search raises the mover's store by at least one stone, the calls at
\* one ply are no more than the stones in play allow, and every call of
\* chooseAlphaBeta returns.
C26_AlphaBetaTerminates ==
    /\ [](pc = "search" =>
            \A k \in 1..Len(stack) :
                /\ (k > 1 /\ stack[k].player = stack[k - 1].player) =>
                       Own(stack[k].bd, stack[k].player)[6] >
                           Own(stack[k - 1].bd, stack[k].player)[6]
                /\ Cardinality(SamePly(k)) <= 1 + 12 * stones)
    /\ (pc = "choose") ~> (pc = "check")

\* a chain of two bonus moves inside the search: three calls at one ply
C26_Witness ==
    /\ pc = "search"
    /\ \E k \in 1..Len(stack) : Cardinality(SamePly(k)) >= 3

\* the root moves that obtained the value chooseAlphaBeta returns
RootBest == {pv[1] : pv \in {qv \in RootValues : qv[2] = ab.bestvalue}}

\* C27: when several root moves obtain the same best value,
\* chooseAlphaBeta returns the one with the lowest pit index.
C27_LowestPitOnTie ==
    AfterChoose =>
        /\ ab.bestpit \in RootBest
        /\ \A pit \in RootBest : ab.bestpit <= pit

\* three root moves obtained the best value, after a move of a lower pit
\* that obtained less
C27_Witness ==
    /\ AfterChoose
    /\ Cardinality(RootBest) >= 3
    /\ \E pv \in RootValues : pv[1] < ab.bestpit

\* the position a node of the tree represents: the board chooseMonteCarlo
\* was called with, with the moves on the path from the root applied, and
\* the player to move in it
RECURSIVE NodeMove(_)
NodeMove(n) ==
    IF tree[n].parent = 0
    THEN [bd |-> mc.bd, nextplayer |-> MAXIMIZER]
    ELSE LET m == makeMove(NodeMove(tree[n].parent).bd, tree[n].move,
                           tree[n].player)
         IN [bd |-> m.bd, nextplayer |-> m.nextplayer]

NodeBoard(n) == NodeMove(n).bd
NodeToMove(n) == NodeMove(n).nextplayer
NodeTerminal(n) == checkEnd(NodeBoard(n), winningStonesCount).end

\* the search is between two statements of an iteration
InIteration == pc \in {"select", "simulate", "backpropagate"}

\* C28: each iteration adds at most one node to the tree, and adds one
\* exactly when the node reached by selection has an untried move and
\* checkEnd reports the scratch position as not ended; the chosen move is
\* removed from that node's untried moves, and the new child records the
\* move, the player who made it, and as untried moves the non-empty pits
\* of the player who moves next. No node is created beneath a node whose
\* position is terminal.
C28_Expansion ==
    /\ [](tree # <<>> =>
            /\ Len(tree) <= 1 + mc.iter + (IF InIteration THEN 1 ELSE 0)
            /\ \A c \in 2..Len(tree) : ~NodeTerminal(tree[c].parent))
    /\ [][(tree # <<>> /\ tree' # <<>> /\ mc'.bd = mc.bd) =>
            /\ Len(tree') \in {Len(tree), Len(tree) + 1}
            /\ Len(tree') = Len(tree) + 1 <=>
                   /\ pc = "select" /\ pc' # "select"
                   /\ tree[mc.node].untriedMoves # {}
                   /\ ~checkEnd(mc.state, winningStonesCount).end
            /\ Len(tree') = Len(tree) + 1 =>
                   LET n == mc.node
                       c == tree'[Len(tree')]
                   IN /\ c.parent = n
                      /\ c.move \in tree[n].untriedMoves
                      /\ tree'[n].untriedMoves =
                             tree[n].untriedMoves \ {c.move}
                      /\ c.player = mc.nextPlayer
                      /\ c.player = NodeToMove(n)
                      /\ LET m == makeMove(NodeBoard(n), c.move,
                                           NodeToMove(n))
                         IN c.untriedMoves =
                                {i \in Pits :
                                    Own(m.bd, m.nextplayer)[i] > 0}
                      /\ \A k \in 1..Len(tree) :
                             k # n => tree'[k] = tree[k]]_vars

\* a node was reached whose position ends the game, it has pits that hold
\* stones for the player who would move next, and it got no child
C28_Witness ==
    /\ pc = "backpropagate"
    /\ mc.node > 1
    /\ tree[mc.node].untriedMoves # {}
    /\ NodeTerminal(mc.node)
    /\ tree[mc.node].visits >= 1

\* node i is node n or one of the nodes above it, up to the root
RECURSIVE OnChain(_, _)
OnChain(i, n) == n # 0 /\ (i = n \/ OnChain(i, tree[n].parent))

\* C29: at the end of each iteration exactly the nodes on the parent chain
\* from the node reached up to and including the root have their visit
\* count increased by 1; each of them gains 1 win if the winner of the
\* play-out is the node's player, half a win on a tie and nothing if the
\* other player won; no node off that chain changes.
C29_BackPropagation ==
    [][pc = "backpropagate" =>
          /\ Len(tree') = Len(tree)
          /\ \A i \in 1..Len(tree) :
                IF OnChain(i, mc.node)
                THEN /\ tree'[i].visits = tree[i].visits + 1
                     /\ tree'[i].wins2 - tree[i].wins2 =
                            (IF mc.winner = tree[i].player THEN 2
                             ELSE IF mc.winner = 0 THEN 1
                             ELSE 0)
                     /\ [tree'[i] EXCEPT !.visits = 0, !.wins2 = 0] =
                            [tree[i] EXCEPT !.visits = 0, !.wins2 = 0]
                ELSE tree'[i] = tree[i]]_vars

\* an iteration that ended in a tie has been propagated from a node two
\* levels below the root, past nodes that are not on its chain
C29_Witness ==
    /\ pc = "iterate"
    /\ mc.iter >= 2
    /\ mc.winner = 0
    /\ Len(tree) >= 4
    /\ \E c \in 2..Len(tree) :
          /\ tree[c].parent > 1
          /\ tree[c].visits = 1
          /\ tree[c].wins2 = 1

\* the children of node n and the moves they carry
Children(n) == {c \in 2..Len(tree) : tree[c].parent = n}
ChildMoves(n) == {tree[c].move : c \in Children(n)}

\* C30: after every iteration, for every node of the tree, its untried
\* moves and its children's moves are disjoint, no two children carry the
\* same move, and the union of both is the set of non-empty pits of the
\* player to move in the position the node represents.
C30_MoveBookkeeping ==
    (mc.op = "chooseMonteCarlo" /\ ~InIteration /\ tree # <<>>) =>
        \A n \in 1..Len(tree) :
            /\ tree[n].untriedMoves \cap ChildMoves(n) = {}
            /\ Cardinality(ChildMoves(n)) = Cardinality(Children(n))
            /\ tree[n].untriedMoves \cup ChildMoves(n) =
                   {i \in Pits : Own(NodeBoard(n), NodeToMove(n))[i] > 0}

\* after three iterations the root has two children and no untried move,
\* and one of its children has a child of its own and untried moves
C30_Witness ==
    /\ mc.op = "chooseMonteCarlo"
    /\ pc = "iterate"
    /\ mc.iter >= 3
    /\ tree[1].untriedMoves = {}
    /\ Cardinality(Children(1)) >= 2
    /\ \E n \in 2..Len(tree) :
          /\ Children(n) # {}
          /\ tree[n].untriedMoves # {}

\* the real board with the moves on the path from the root to node n
\* applied in order, each by the player who is to move when it is made,
\* and the player to move after them
RECURSIVE RealMove(_)
RealMove(n) ==
    IF tree[n].parent = 0
    THEN [bd |-> mc.bd, nextplayer |-> MAXIMIZER, bonus |-> FALSE]
    ELSE LET q == RealMove(tree[n].parent)
             m == makeMove(q.bd, tree[n].move, q.nextplayer)
         IN [bd |-> m.bd, nextplayer |-> m.nextplayer,
             bonus |-> (tree[n].move
                        + Own(q.bd, q.nextplayer)[tree[n].move]) % 13 = 6]

\* C31: every non-root node's recorded player is the player who was to
\* move in its parent's position, the parent's player after a bonus move
\* of the parent and the other player otherwise; the selection phase,
\* replaying node.move by node.player, leaves the scratch board equal to
\* the real board with the path's moves applied and nextPlayer equal to
\* the player to move there.
C31_ReplayConsistency ==
    (mc.op = "chooseMonteCarlo" /\ tree # <<>>) =>
        /\ \A c \in 2..Len(tree) :
              LET n == tree[c].parent
              IN /\ tree[c].player = RealMove(n).nextplayer
                 /\ tree[c].player = IF RealMove(n).bonus
                                     THEN tree[n].player
                                     ELSE 0 - tree[n].player
        /\ pc = "select" =>
              /\ mc.state.maxpits = RealMove(mc.node).bd.maxpits
              /\ mc.state.minpits = RealMove(mc.node).bd.minpits
              /\ mc.nextPlayer = RealMove(mc.node).nextplayer

\* the selection has come down two levels, through a node made by a bonus
\* move, and MAXIMIZER is to move again
C31_Witness ==
    /\ pc = "select"
    /\ mc.node > 1
    /\ tree[mc.node].parent > 1
    /\ tree[mc.node].visits >= 1
    /\ RealMove(tree[mc.node].parent).bonus
    /\ tree[mc.node].player = tree[tree[mc.node].parent].player

\* C32: whenever selectBestChild computes ucb1 for a child, the visit
\* count of that child is at least 1: the division by the visits in ucb1
\* never has a zero divisor.
C32_NoZeroVisits ==
    (pc = "select" /\ Selecting(mc.node)) =>
        \A c \in Children(mc.node) : tree[c].visits >= 1

\* selectBestChild is about to score the children of a node below the
\* root, one of them created in the iteration before
C32_Witness ==
    /\ pc = "select"
    /\ mc.node > 1
    /\ Selecting(mc.node)
    /\ \E c \in Children(mc.node) : c = Len(tree) /\ tree[c].visits = 1

\* the visits of the nodes of a set, added up
RECURSIVE VisitSum(_)
VisitSum(S) ==
    IF S = {} THEN 0
    ELSE LET c == CHOOSE x \in S : TRUE
         IN tree[c].visits + VisitSum(S \ {c})

\* C33: after k completed iterations the root's visit count is k; for
\* every node 0 <= wins <= visits and visits >= the sum of its children's
\* visits; the value chooseMonteCarlo reports lies in 0..100.
C33_VisitAccounting ==
    (mc.op = "chooseMonteCarlo" /\ tree # <<>>) =>
        /\ ~InIteration => tree[1].visits = mc.iter
        /\ ~InIteration =>
              \A n \in 1..Len(tree) :
                 /\ 0 <= tree[n].wins2
                 /\ tree[n].wins2 <= 2 * tree[n].visits
                 /\ tree[n].visits >= VisitSum(Children(n))
        /\ AfterMonteCarlo => mc.value \in 0..100

\* three iterations are done, the move returned is one whose play-outs
\* were neither all won nor all lost, and a node below the root has been
\* visited more often than its children together
C33_Witness ==
    /\ AfterMonteCarlo
    /\ mc.iter = 3
    /\ mc.value \in 1..99
    /\ \E n \in 2..Len(tree) :
          /\ Children(n) # {}
          /\ tree[n].visits > VisitSum(Children(n))

\* a node kept from the search before is the root of the search that runs
\* (a new root is always node 1)
Reused == mc.op = "UCT" /\ pc # "panic" /\ mc.rootNode > 1

\* node n is node top or below it
RECURSIVE Below(_, _)
Below(n, top) ==
    n # 0 /\ (n = top \/ Below(tree[n].parent, top))

\* C34: whenever a node kept is reused as the root of a search, its
\* untried moves together with its children's moves are MAXIMIZER's
\* non-empty pits on the board passed to the search, and the back
\* propagation stops at the new root: no node above it is updated.
C34_ReuseSound ==
    [][Reused =>
          /\ tree[mc.rootNode].untriedMoves \cup ChildMoves(mc.rootNode) =
                 {i \in Pits : mc.bd.maxpits[i] > 0}
          /\ pc = "uct_update" =>
                 \A i \in 1..Len(tree) :
                     tree'[i] # tree[i] => Below(i, mc.rootNode)]_vars

\* C35: checkEnd is idempotent on the boards the game reaches: a second
\* call on the board a first call left returns the same end and winner as
\* the first and changes no pit and no store.
C35_CheckEndIdempotent ==
    (call.op = "checkEnd" /\ pc \in {"move", "done"}) =>
        LET again == checkEnd(bd, winningStonesCount)
        IN /\ again.end = call.end
           /\ again.winner = call.winner
           /\ again.bd.maxpits = bd.maxpits
           /\ again.bd.minpits = bd.minpits

\* the first call swept stones into a store that then held more than
\* half of the stones: a second call ends at its first test
C35_Witness ==
    /\ call.op = "checkEnd"
    /\ pc = "done"
    /\ bd # mid
    /\ mid.maxpits[6] <= winningStonesCount
    /\ mid.minpits[6] <= winningStonesCount
    /\ (bd.maxpits[6] > winningStonesCount
        \/ bd.minpits[6] > winningStonesCount)

\* C36: checkEnd leaves a running game alone: on every board where neither
\* store holds more than 6 stones per starting stone and both sides have a
\* stone in their pits, it returns end = false and winner = UNSET and
\* changes no pit and no store.
C36_RunningGameUntouched ==
    (/\ AfterCheck
     /\ mid.maxpits[6] <= 6 * stones
     /\ mid.minpits[6] <= 6 * stones
     /\ SideSum(mid.maxpits) >= 1
     /\ SideSum(mid.minpits) >= 1) =>
        /\ ~call.end
        /\ call.winner = UNSET
        /\ pc = "move"
        /\ bd.maxpits = mid.maxpits
        /\ bd.minpits = mid.minpits

\* checkEnd was called on a board where a side is down to its last stone
\* and a store holds half of the stones, and the game goes on
C36_Witness ==
    /\ AfterCheck
    /\ pc = "move"
    /\ (mid.maxpits[6] = 6 * stones \/ mid.minpits[6] = 6 * stones)
    /\ (SideSum(mid.maxpits) = 1 \/ SideSum(mid.minpits) = 1)

\* C37: a sowing of exactly 13 stones from the mover's pit p puts one stone
\* in each of the other 12 places of the path, lands its last stone in pit
\* p, which counts as empty, and captures: pit p and the opposite pit
\* 5 - p both end at 0, their stones go to the mover's store, and the move
\* is not a bonus move.
C37_FullLapCapture ==
    (AfterMove /\ Hand = 13) =>
        LET p == call.pit
            own0 == Own(pre, call.mover)
            opp0 == Opp(pre, call.mover)
            own1 == Own(bd, call.mover)
            opp1 == Opp(bd, call.mover)
        IN /\ \A i \in Pits \ {p} : own1[i] = own0[i] + 1
           /\ \A j \in Pits \ {5 - p} : opp1[j] = opp0[j] + 1
           /\ own1[p] = 0
           /\ opp1[5 - p] = 0
           /\ own1[6] = own0[6] + 1 + (opp0[5 - p] + 1) + 1
           /\ opp1[6] = opp0[6]
           /\ call.nextplayer = 0 - call.mover
           /\ call.plydelta = 1

\* 13 stones were sown and the opposite pit, filled by the lap, is empty
C37_Witness ==
    /\ AfterMove
    /\ Hand = 13
    /\ Own(bd, call.mover)[6] >= Own(pre, call.mover)[6] + 3
    /\ Opp(bd, call.mover)[5 - call.pit] = 0

\* the referee has called checkEnd for the last move made
AfterReferee == call.op = "checkEnd" /\ pc \in {"move", "done"}

\* C38: in the playoff, after every move, the one that ends the game
\* included, the referee's board is the first player's board and the mirror
\* image of the second player's board at all 7 indexes, and the three agree
\* on who moves next: compare3 and the next-player test print nothing.
C38_PlayoffAgreement ==
    AfterReferee =>
        /\ compare3(bd, maximizer, minimizer) = {}
        /\ ~nextDisagree(player, maxNxt, minNxt)
====
